---- MODULE Spec2Model ----
(***************************************************************************)
(* Student_Dashboard1.py: a Streamlit script.  Every interaction (opening  *)
(* the page, changing a widget, pressing the button, uploading a file)     *)
(* re-executes the whole script top to bottom: load the CSV, render the    *)
(* filter widgets, filter the DataFrame, and either render the results     *)
(* (metrics, grouped means, CSV export, correlations) or an error message. *)
(* One action of this module is one such interaction followed by the       *)
(* complete script run it triggers.                                        *)
(*                                                                         *)
(* Representation.  CSV text is a sequence of tokens (decimal digits, ".", *)
(* and whole words); a cell of a DataFrame is a typed value; a float64 is  *)
(* kept as the decimal it was parsed from (in tenths) and converted to its *)
(* IEEE-754 value, bit-exactly, where arithmetic is done on it.  Every     *)
(* field of a CSV row is non-empty (no missing values).                    *)
(***************************************************************************)
EXTENDS Integers, Sequences, FiniteSets, TLC

(***************************************************************************)
(* Bounds of the model.                                                    *)
(***************************************************************************)
\* rows of a CSV file in the single-run specification RunSpec
MaxRows == 2
\* attributes with a non-default filter at the same time
MaxActive == 1
\* rows of a CSV file in the aggregation specification AggSpec
MaxViewRows == 3
\* rows of a CSV file in the session specification Spec
MaxSessionRows == 1

(***************************************************************************)
(* Column names (the string keys the script indexes the DataFrame with).   *)
(***************************************************************************)
CategoricalColumns ==
    <<"gender", "race/ethnicity", "parental level of education", "lunch",
      "test preparation course">>

NumericColumns ==
    <<"math score", "reading score", "writing score", "Attendance",
      "StudyHours", "avg_Score">>

RequiredColumns == CategoricalColumns \o NumericColumns

Range(seq) == {seq[i] : i \in DOMAIN seq}

(***************************************************************************)
(* Text.                                                                   *)
(***************************************************************************)
DigitTokens == <<"0", "1", "2", "3", "4", "5", "6", "7", "8", "9">>

IsDigit(tok) == tok \in Range(DigitTokens)

DigitVal(tok) == (CHOOSE i \in 1..10 : DigitTokens[i] = tok) - 1

IsIntText(x) == Len(x) > 0 /\ \A i \in 1..Len(x) : IsDigit(x[i])

\* a decimal with exactly one fractional digit, "d+.d"
IsFloatText(x) ==
    /\ Len(x) >= 3
    /\ x[Len(x) - 1] = "."
    /\ IsDigit(x[Len(x)])
    /\ \A i \in 1..(Len(x) - 2) : IsDigit(x[i])

RECURSIVE IntOfText(_)
IntOfText(x) ==
    IF Len(x) = 0 THEN 0
    ELSE 10 * IntOfText(SubSeq(x, 1, Len(x) - 1)) + DigitVal(x[Len(x)])

TenthsOfText(x) ==
    10 * IntOfText(SubSeq(x, 1, Len(x) - 2)) + DigitVal(x[Len(x)])

RECURSIVE IntToText(_)
IntToText(n) ==
    IF n < 10 THEN <<DigitTokens[n + 1]>>
    ELSE Append(IntToText(n \div 10), DigitTokens[(n % 10) + 1])

\* repr() of a float64 that is a whole number of tenths: "0.1", "5.0"
FloatToText(t) == IntToText(t \div 10) \o <<".", DigitTokens[(t % 10) + 1]>>

(***************************************************************************)
(* Cells: int64 (n = the value), float64 (n = the value in tenths) and     *)
(* object/str (s = the text).                                              *)
(***************************************************************************)
IntCell(v) == [t |-> "int", n |-> v, s |-> <<>>]
FloatCell(v) == [t |-> "float", n |-> v, s |-> <<>>]
StrCell(x) == [t |-> "str", n |-> 0, s |-> x]

\* the value of a numeric cell, in tenths
Tenths(c) == IF c.t = "int" THEN 10 * c.n ELSE c.n

CellToText(c) ==
    CASE c.t = "int" -> IntToText(c.n)
      [] c.t = "float" -> FloatToText(c.n)
      [] OTHER -> c.s

(***************************************************************************)
(* pd.read_csv: the header gives the column names; a column whose fields   *)
(* all read as integers is int64, one whose fields all read as numbers is  *)
(* float64, any other column keeps its fields as strings.  The index is    *)
(* 0..n-1.                                                                 *)
(***************************************************************************)
ColumnType(rows, j) ==
    IF \A i \in 1..Len(rows) : IsIntText(rows[i][j]) THEN "int"
    ELSE IF \A i \in 1..Len(rows) :
                IsIntText(rows[i][j]) \/ IsFloatText(rows[i][j]) THEN "float"
    ELSE "str"

ParseField(type, x) ==
    CASE type = "int" -> IntCell(IntOfText(x))
      [] type = "float" ->
            FloatCell(IF IsIntText(x) THEN 10 * IntOfText(x) ELSE TenthsOfText(x))
      [] OTHER -> StrCell(x)

ColumnIndex(header, name) == CHOOSE j \in 1..Len(header) : header[j] = name

ReadCsv(header, rows) ==
    [columns |-> header,
     index |-> [i \in 1..Len(rows) |-> i - 1],
     rows |-> [i \in 1..Len(rows) |->
                 [c \in Range(header) |->
                    ParseField(ColumnType(rows, ColumnIndex(header, c)),
                               rows[i][ColumnIndex(header, c)])]]]

(***************************************************************************)
(* IEEE-754 binary64 arithmetic on non-negative values, bit-exact.  A      *)
(* double is held as the natural number of units of 2^-60 it equals,       *)
(* written as four limbs of 20 bits, most significant first.  All values   *)
(* that occur (cells up to a few hundred, their sums over a view, means no *)
(* smaller than 2^-8) are whole numbers of units, and rounding them to 53  *)
(* significant bits only touches bits of the last limb.                    *)
(***************************************************************************)
LimbBase == 2 ^ 20

\* binary64 has 52 stored significand bits and an implicit leading one
SignificandBits == 52 + 1

\* the sum of two values, limb by limb with carry
BigAdd(a, b) ==
    LET s4 == a[4] + b[4]
        s3 == a[3] + b[3] + (s4 \div LimbBase)
        s2 == a[2] + b[2] + (s3 \div LimbBase)
        s1 == a[1] + b[1] + (s2 \div LimbBase)
    IN  <<s1, s2 % LimbBase, s3 % LimbBase, s4 % LimbBase>>

\* quotient and remainder of a by n, for a small positive integer n
BigDivSmall(a, n) ==
    LET r1 == a[1] % n
        d2 == r1 * LimbBase + a[2]
        d3 == (d2 % n) * LimbBase + a[3]
        d4 == (d3 % n) * LimbBase + a[4]
    IN  [q |-> <<a[1] \div n, d2 \div n, d3 \div n, d4 \div n>>, r |-> d4 % n]

\* the number of bits of x, 0 <= x < LimbBase
SmallBitLen(x) == CHOOSE k \in 0..20 : x < 2 ^ k /\ (k = 0 \/ x >= 2 ^ (k - 1))

BigBitLen(a) ==
    IF a[1] # 0 THEN 60 + SmallBitLen(a[1])
    ELSE IF a[2] # 0 THEN 40 + SmallBitLen(a[2])
    ELSE IF a[3] # 0 THEN 20 + SmallBitLen(a[3])
    ELSE SmallBitLen(a[4])

(* Round a + f to SignificandBits significant bits, to nearest, ties to   *)
(* even, where 0 <= f < 1 is a fraction of which only its comparison with *)
(* a half is known: fracCmp is -1 (f = 0), 0 (0 < f < 1/2), 1 (f = 1/2),  *)
(* 2 (f > 1/2).  q is the number of low bits to drop.                     *)
RoundToDouble(a, fracCmp) ==
    LET q == BigBitLen(a) - SignificandBits
    IN  IF q <= 0
        THEN IF fracCmp = 2 \/ (fracCmp = 1 /\ a[4] % 2 = 1)
             THEN BigAdd(a, <<0, 0, 0, 1>>) ELSE a
        ELSE LET low == a[4] % (2 ^ q)
                 kept == <<a[1], a[2], a[3], a[4] - low>>
                 half == 2 ^ (q - 1)
                 odd == (a[4] \div (2 ^ q)) % 2 = 1
                 up == \/ low > half
                       \/ low = half /\ fracCmp >= 0
                       \/ low = half /\ fracCmp = -1 /\ odd
             IN  IF up THEN BigAdd(kept, <<0, 0, 0, 2 ^ q>>) ELSE kept

\* float64 addition
FloatAdd(a, b) == RoundToDouble(BigAdd(a, b), -1)

\* float64 division by a small positive integer
FloatDivInt(a, n) ==
    LET d == BigDivSmall(a, n)
    IN  RoundToDouble(d.q, IF d.r = 0 THEN -1
                           ELSE IF 2 * d.r < n THEN 0
                           ELSE IF 2 * d.r = n THEN 1 ELSE 2)

\* the double equal to the integer v, 0 <= v < LimbBase
FloatOfInt(v) == <<v, 0, 0, 0>>

\* the double a numeric cell holds: an int64 converts exactly, a float64 is
\* the correctly rounded value of its decimal text
DoubleOf(c) ==
    IF c.t = "int" THEN FloatOfInt(c.n) ELSE FloatDivInt(FloatOfInt(c.n), 10)

RECURSIVE FloatSum(_)
FloatSum(xs) ==
    IF Len(xs) = 1 THEN xs[1]
    ELSE FloatAdd(FloatSum(SubSeq(xs, 1, Len(xs) - 1)), xs[Len(xs)])

\* ndarray.mean() of a non-empty float64 array
FloatMean(xs) == FloatDivInt(FloatSum(xs), Len(xs))

(***************************************************************************)
(* Python values that may be None are sequences of length 0 or 1.          *)
(***************************************************************************)
None == <<>>
Some(x) == <<x>>

(***************************************************************************)
(* Ordering of cells, as sorted() orders them: numbers by value, strings   *)
(* by code point.  TokenOrder lists the tokens of the model in code-point  *)
(* order of their first character.                                         *)
(***************************************************************************)
TokenOrder ==
    <<".", "0", "1", "2", "3", "4", "5", "6", "7", "8", "9", "All",
      "bachelor", "completed", "female", "free/reduced", "group A",
      "group B", "high school", "male", "none", "standard">>

TokenRank(tok) == CHOOSE i \in 1..Len(TokenOrder) : TokenOrder[i] = tok

RECURSIVE TextLess(_, _)
TextLess(x, y) ==
    IF Len(y) = 0 THEN FALSE
    ELSE IF Len(x) = 0 THEN TRUE
    ELSE IF x[1] # y[1] THEN TokenRank(x[1]) < TokenRank(y[1])
    ELSE TextLess(Tail(x), Tail(y))

CellLess(a, b) == IF a.t = "str" THEN TextLess(a.s, b.s) ELSE a.n < b.n

\* Series.unique(): the distinct values in order of first appearance
RECURSIVE Unique(_)
Unique(cells) ==
    IF Len(cells) = 0 THEN <<>>
    ELSE LET init == Unique(SubSeq(cells, 1, Len(cells) - 1))
             last == cells[Len(cells)]
         IN  IF \E i \in 1..Len(init) : init[i] = last THEN init
             ELSE Append(init, last)

RECURSIVE Sorted(_)
Sorted(cells) ==
    IF Len(cells) = 0 THEN <<>>
    ELSE LET init == Sorted(SubSeq(cells, 1, Len(cells) - 1))
             last == cells[Len(cells)]
             k == Cardinality({i \in 1..Len(init) : ~CellLess(last, init[i])})
         IN  SubSeq(init, 1, k) \o <<last>> \o SubSeq(init, k + 1, Len(init))

HasColumn(d, c) == \E j \in 1..Len(d.columns) : d.columns[j] = c

Column(d, c) == [i \in 1..Len(d.rows) |-> d.rows[i][c]]

(***************************************************************************)
(* The filter widgets (lines 64-123).                                      *)
(***************************************************************************)
All == StrCell(<<"All">>)

SelectboxOptions(d, c) == <<All>> \o Sorted(Unique(Column(d, c)))

DefaultWidgets ==
    [gender_filter |-> All, race_filter |-> All, education_filter |-> All,
     lunch_filter |-> All, prep_filter |-> All,
     attendance_min |-> 0, attendance_max |-> 10,
     study_hours_min |-> 0, study_hours_max |-> 120,
     math_min |-> 0, math_max |-> 100,
     reading_min |-> 0, reading_max |-> 100,
     writing_min |-> 0, writing_max |-> 100,
     avg_score_min |-> 0]

SelectboxNames ==
    <<"gender_filter", "race_filter", "education_filter", "lunch_filter",
      "prep_filter">>

NoOptions == [k \in Range(SelectboxNames) |-> <<>>]

\* the selectboxes rendered before the first categorical column the
\* DataFrame lacks raises KeyError: all five when none is missing
RenderedSelectboxes(d) ==
    CHOOSE k \in 0..5 :
        /\ \A j \in 1..k : HasColumn(d, CategoricalColumns[j])
        /\ k = 5 \/ ~HasColumn(d, CategoricalColumns[k + 1])

(* st.selectbox: a widget is identified by its label and its options; it  *)
(* returns the value the session holds for it when it was rendered with   *)
(* the same options in the previous run, and its first option otherwise.  *)
Selectbox(d, j, ws, opts) ==
    LET name == SelectboxNames[j]
        now == SelectboxOptions(d, CategoricalColumns[j])
    IN  [options |-> now,
         value |-> IF opts[name] = now THEN ws[name] ELSE All]

(* The widget state after the widgets of lines 64-123 have run on d.  A   *)
(* run that does not reach a widget ends in KeyError before it, and a run *)
(* that ends in an exception leaves the session's value of the widgets it *)
(* did not reach as it was.  shown: how many selectboxes were rendered;   *)
(* the number inputs and the button are rendered when all five were.      *)
RenderWidgets(d, ws, opts) ==
    LET k == RenderedSelectboxes(d)
        sel(name) == CHOOSE j \in 1..5 : SelectboxNames[j] = name
    IN  [widgets |->
            [name \in DOMAIN DefaultWidgets |->
                IF name \in Range(SelectboxNames) /\ sel(name) <= k
                THEN Selectbox(d, sel(name), ws, opts).value
                ELSE ws[name]],
         options |->
            [name \in Range(SelectboxNames) |->
                IF sel(name) <= k
                THEN Selectbox(d, sel(name), ws, opts).options
                ELSE opts[name]],
         shown |-> k]

(***************************************************************************)
(* Apply filters (lines 131-161).                                          *)
(***************************************************************************)
\* d[mask]: the rows at which keep holds, with their index labels, in order
SelectRows(d, keep(_)) ==
    LET at == SelectSeq([i \in 1..Len(d.rows) |-> i], LAMBDA i : keep(d.rows[i]))
    IN  [columns |-> d.columns,
         index |-> [k \in 1..Len(at) |-> d.index[at[k]]],
         rows |-> [k \in 1..Len(at) |-> d.rows[at[k]]]]

\* a variant of CategoricalFilter without the test for 'All'
CategoricalFilterNoWildcard(d, c, selected) ==
    SelectRows(d, LAMBDA row : row[c] = selected)

\* lines 134-147: if <filter> != 'All': filtered_df = filtered_df[column == filter]
CategoricalFilter(d, c, selected) ==
    IF selected # All THEN SelectRows(d, LAMBDA row : row[c] = selected) ELSE d

\* value >= bound, value <= bound on a numeric cell; bounds are in tenths
AtLeast(cell, bound) == Tenths(cell) >= bound
\* a variant of AtMost with an exclusive upper bound
AtMostExclusive(cell, bound) == Tenths(cell) < bound
AtMost(cell, bound) == Tenths(cell) <= bound

\* lines 149-161: the conjunction of the eleven comparisons
NumericMask(row, w) ==
    /\ AtLeast(row["math score"], 10 * w.math_min)
    /\ AtMost(row["math score"], 10 * w.math_max)
    /\ AtLeast(row["reading score"], 10 * w.reading_min)
    /\ AtMost(row["reading score"], 10 * w.reading_max)
    /\ AtLeast(row["writing score"], 10 * w.writing_min)
    /\ AtMost(row["writing score"], 10 * w.writing_max)
    /\ AtLeast(row["Attendance"], 10 * w.attendance_min)
    /\ AtMost(row["Attendance"], 10 * w.attendance_max)
    /\ AtLeast(row["StudyHours"], w.study_hours_min)
    /\ AtMost(row["StudyHours"], w.study_hours_max)
    /\ AtLeast(row["avg_Score"], w.avg_score_min)

\* the comparisons raise KeyError on a missing column and TypeError on a
\* column of strings
NumericColumnsUsable(d) ==
    \A j \in 1..Len(NumericColumns) :
        /\ HasColumn(d, NumericColumns[j])
        /\ \A i \in 1..Len(d.rows) : d.rows[i][NumericColumns[j]].t # "str"

\* a variant of FilterInput that narrows the previous run's view
FilterInputPrevious(d, previous) == IF previous = None THEN d ELSE previous[1]

(* The DataFrame the filters start from: a copy of df, whatever the       *)
(* previous run's view was.                                                *)
FilterInput(d, previous) == d

\* a variant of ApplyFilters that assigns the filtered rows to df itself
ApplyFiltersInPlace(d, previous, w) ==
    LET f0 == FilterInput(d, previous)
        f1 == CategoricalFilter(f0, "gender", w.gender_filter)
        f2 == CategoricalFilter(f1, "race/ethnicity", w.race_filter)
        f3 == CategoricalFilter(f2, "parental level of education",
                                w.education_filter)
        f4 == CategoricalFilter(f3, "lunch", w.lunch_filter)
        f5 == CategoricalFilter(f4, "test preparation course", w.prep_filter)
        view == SelectRows(f5, LAMBDA row : NumericMask(row, w))
    IN  IF NumericColumnsUsable(d)
        THEN [raised |-> FALSE, df |-> view, filtered_df |-> Some(view)]
        ELSE [raised |-> TRUE, df |-> d, filtered_df |-> None]

(* Lines 131-161 on a DataFrame d that has the categorical columns.       *)
(* raised: the numeric comparisons raised; df: the object named df after  *)
(* the filters; filtered_df: the view.                                     *)
ApplyFilters(d, previous, w) ==
    LET f0 == FilterInput(d, previous)
        f1 == CategoricalFilter(f0, "gender", w.gender_filter)
        f2 == CategoricalFilter(f1, "race/ethnicity", w.race_filter)
        f3 == CategoricalFilter(f2, "parental level of education",
                                w.education_filter)
        f4 == CategoricalFilter(f3, "lunch", w.lunch_filter)
        f5 == CategoricalFilter(f4, "test preparation course", w.prep_filter)
    IN  IF NumericColumnsUsable(d)
        THEN [raised |-> FALSE, df |-> d,
              filtered_df |-> Some(SelectRows(f5, LAMBDA row : NumericMask(row, w)))]
        ELSE [raised |-> TRUE, df |-> d, filtered_df |-> None]

(***************************************************************************)
(* Output (lines 164-415), on a non-empty view.                            *)
(***************************************************************************)
RECURSIVE SumTenths(_)
SumTenths(cells) ==
    IF Len(cells) = 0 THEN 0
    ELSE SumTenths(SubSeq(cells, 1, Len(cells) - 1)) + Tenths(cells[Len(cells)])

\* Series.mean() as the exact fraction <<sum in tenths, count>>
Mean(cells) == <<SumTenths(cells), Len(cells)>>

\* a variant of GroupKeys with one key per row
GroupKeysPerRow(view, c) == Sorted(Column(view, c))

(* view.groupby(c)['avg_Score'].mean().reset_index(): one entry per key   *)
(* that occurs in column c, keys sorted; size is the number of rows of    *)
(* the group the mean is taken over.                                       *)
GroupKeys(view, c) == Sorted(Unique(Column(view, c)))

GroupByMean(view, c) ==
    LET keys == GroupKeys(view, c)
        group(key) == SelectRows(view, LAMBDA row : row[c] = key)
    IN  [k \in 1..Len(keys) |->
            [key |-> keys[k],
             size |-> Len(group(keys[k]).rows),
             avg_Score |-> Mean(Column(group(keys[k]), "avg_Score"))]]

(* The deviations x - x.mean() numpy.cov takes are all zero exactly when  *)
(* every element equals the computed mean.                                 *)
DeviationsAllZero(xs) ==
    /\ \A i \in 1..Len(xs) : xs[i] = xs[1]
    /\ FloatMean(xs) = xs[1]

(* Series.corr, i.e. numpy.corrcoef(x, y)[0, 1]: the covariance matrix of *)
(* the deviations scaled by 1/(n - 1) (an infinite factor when n = 1, so   *)
(* every entry 0 * inf is NaN), then divided by the two standard            *)
(* deviations; 0/0 is NaN.  A result that is not NaN is "number": its      *)
(* digits are not modelled.                                                 *)
Corr(xs, ys) ==
    IF Len(xs) - 1 <= 0 THEN "nan"
    ELSE IF DeviationsAllZero(xs) \/ DeviationsAllZero(ys) THEN "nan"
    ELSE "number"

SeriesCorr(view, a, b) ==
    Corr([i \in 1..Len(view.rows) |-> DoubleOf(view.rows[i][a])],
         [i \in 1..Len(view.rows) |-> DoubleOf(view.rows[i][b])])

\* line 391: view.to_csv(index=False)
ToCsv(view) ==
    [header |-> view.columns,
     rows |-> [i \in 1..Len(view.rows) |->
                 [j \in 1..Len(view.columns) |->
                    CellToText(view.rows[i][view.columns[j]])]]]

Output(view) ==
    [count |-> Len(view.rows),
     avg_math |-> Mean(Column(view, "math score")),
     avg_reading |-> Mean(Column(view, "reading score")),
     avg_writing |-> Mean(Column(view, "writing score")),
     avg_study_hours |-> Mean(Column(view, "StudyHours")),
     avg_attendance |-> Mean(Column(view, "Attendance")),
     prep_data |-> GroupByMean(view, "test preparation course"),
     lunch_data |-> GroupByMean(view, "lunch"),
     corr_study_avg |-> SeriesCorr(view, "StudyHours", "avg_Score"),
     corr_attend_avg |-> SeriesCorr(view, "Attendance", "avg_Score"),
     corr_math_read |-> SeriesCorr(view, "math score", "reading score")]

\* a variant of HasRecords that lets the empty view through
HasRecordsOrEmpty(view) == Len(view.rows) >= 0

\* line 164
HasRecords(view) == Len(view.rows) > 0

(***************************************************************************)
(* Files.  A file is absent, unreadable as CSV (pd.read_csv raises), or a  *)
(* CSV text with a header and rows of fields.                              *)
(***************************************************************************)
Absent == [kind |-> "absent", header |-> <<>>, rows |-> <<>>]
Malformed == [kind |-> "malformed", header |-> <<>>, rows |-> <<>>]
CsvFile(header, rows) == [kind |-> "csv", header |-> header, rows |-> rows]

\* lines 35-42: the try/except turns every failure of read_csv into None
load_student_data(file) ==
    IF file.kind = "csv" THEN Some(ReadCsv(file.header, file.rows)) ELSE None

(***************************************************************************)
(* One run of the script (lines 45-433) from the session's state: the      *)
(* default-path file, the uploaded file or None, the st.cache_data entry   *)
(* of load_student_data (None: not yet called), the session's widget       *)
(* values and the options they were rendered with, and the previous view.  *)
(***************************************************************************)
Result(outcome, cache, d, ws, opts, shown, view, out, text) ==
    [outcome |-> outcome, cache |-> cache, df |-> d, widgets |-> ws,
     options |-> opts, shown |-> shown, filtered_df |-> view,
     output |-> out, csv |-> text]

RunScript(file, uploaded, cached, ws, opts, previous) ==
    LET loaded == IF cached # None THEN cached[1] ELSE load_student_data(file)
        cacheOut == IF uploaded # None THEN cached ELSE Some(loaded)
        data == IF uploaded # None
                THEN Some(ReadCsv(uploaded[1].header, uploaded[1].rows))
                ELSE loaded
    IN  IF uploaded # None /\ uploaded[1].kind # "csv"
        THEN \* line 48 raises
             Result("exception", cached, None, ws, opts, 0, None, None, None)
        ELSE IF data = None
        THEN \* lines 431-433; the run completes, widgets not rendered are forgotten
             Result("nodata", cacheOut, None, DefaultWidgets, NoOptions, 0,
                    None, None, None)
        ELSE LET r == RenderWidgets(data[1], ws, opts)
                 f == ApplyFilters(data[1], previous, r.widgets)
             IN  IF r.shown < 5 \/ f.raised
                 THEN Result("exception", cacheOut, data, r.widgets, r.options,
                             r.shown, None, None, None)
                 ELSE IF HasRecords(f.filtered_df[1])
                 THEN Result("results", cacheOut, Some(f.df), r.widgets,
                             r.options, r.shown, f.filtered_df,
                             Some(Output(f.filtered_df[1])),
                             Some(ToCsv(f.filtered_df[1])))
                 ELSE \* lines 417-418
                      Result("empty", cacheOut, Some(f.df), r.widgets,
                             r.options, r.shown, f.filtered_df, None, None)

(***************************************************************************)
(* Inputs of the model.                                                    *)
(***************************************************************************)
Row1 ==
    << <<"female">>, <<"group A">>, <<"bachelor">>, <<"standard">>, <<"none">>,
       <<"9", "0">>, <<"6", "0">>, <<"7", "0">>, <<"5">>, <<"0", ".", "1">>,
       <<"7", "3", ".", "3">> >>
Row2 ==
    << <<"male">>, <<"group B">>, <<"high school">>, <<"free/reduced">>,
       <<"completed">>, <<"1", "0">>, <<"6", "0">>, <<"2", "0">>, <<"5">>,
       <<"0", ".", "1">>, <<"3", "0", ".", "0">> >>
\* Attendance outside the range of the Attendance inputs
Row3 ==
    << <<"female">>, <<"group B">>, <<"bachelor">>, <<"standard">>,
       <<"completed">>, <<"5", "0">>, <<"4", "0">>, <<"6", "0">>, <<"1", "1">>,
       <<"5", ".", "0">>, <<"5", "0", ".", "0">> >>
\* a category that reads as a number
Row4 ==
    << <<"male">>, <<"7">>, <<"high school">>, <<"free/reduced">>, <<"none">>,
       <<"5", "0">>, <<"7", "0">>, <<"6", "0">>, <<"8">>, <<"2", ".", "5">>,
       <<"6", "0", ".", "0">> >>

RowPool == {Row1, Row2, Row3, Row4}

Tables(n) ==
    {CsvFile(RequiredColumns, rows) :
        rows \in UNION {[1..k -> RowPool] : k \in 0..n}}

\* the CSV file without column c
Without(file, c) ==
    LET keep == SelectSeq([j \in 1..Len(file.header) |-> j],
                          LAMBDA j : file.header[j] # c)
    IN  CsvFile([k \in 1..Len(keep) |-> file.header[keep[k]]],
                [i \in 1..Len(file.rows) |->
                    [k \in 1..Len(keep) |-> file.rows[i][keep[k]]]])

BrokenFiles ==
    {Malformed,
     Without(CsvFile(RequiredColumns, <<Row1>>), "lunch"),
     Without(CsvFile(RequiredColumns, <<Row1>>), "Attendance")}

\* values typed into the number inputs, within their min_value..max_value
NumberInputValues ==
    [attendance_min |-> {0, 8}, attendance_max |-> {10, 5},
     study_hours_min |-> {0, 25}, study_hours_max |-> {120, 1},
     math_min |-> {0, 90}, math_max |-> {100, 10},
     reading_min |-> {0, 70}, reading_max |-> {100, 60},
     writing_min |-> {0, 70}, writing_max |-> {100, 20},
     avg_score_min |-> {0, 600}]

\* the filters of the dashboard, each with the widgets that set it
Attributes ==
    {{"gender_filter"}, {"race_filter"}, {"education_filter"},
     {"lunch_filter"}, {"prep_filter"},
     {"attendance_min", "attendance_max"},
     {"study_hours_min", "study_hours_max"}, {"math_min", "math_max"},
     {"reading_min", "reading_max"}, {"writing_min", "writing_max"},
     {"avg_score_min"}}

ActiveCount(w) ==
    Cardinality({A \in Attributes : \E n \in A : w[n] # DefaultWidgets[n]})

WidgetValues(name, opts) ==
    IF name \in Range(SelectboxNames) THEN Range(opts[name])
    ELSE NumberInputValues[name]

\* the widget states with at most k filters active, for the given options
RECURSIVE WidgetStates(_, _)
WidgetStates(k, opts) ==
    IF k = 0 THEN {DefaultWidgets}
    ELSE LET fewer == WidgetStates(k - 1, opts)
             settings ==
                UNION {{s \in [A -> UNION {WidgetValues(n, opts) : n \in A}] :
                            \A n \in A : s[n] \in WidgetValues(n, opts)} :
                          A \in Attributes}
         IN  fewer \cup {[n \in DOMAIN DefaultWidgets |->
                            IF n \in DOMAIN s THEN s[n] ELSE c[n]] :
                                c \in fewer, s \in settings}

(***************************************************************************)
(* State.                                                                  *)
(***************************************************************************)
VARIABLES
    disk,           \* the file at 'StudentsPerformance_Updated.csv'
    uploaded_file,  \* st.file_uploader's value: None or a file
    cache,          \* st.cache_data's entry for load_student_data
    widgets,        \* the session's value of every filter widget
    options,        \* the options each selectbox was last rendered with
    shown,          \* the selectboxes the last run rendered
    outcome,        \* how the last run ended
    df,             \* df at the end of the last run
    filtered_df,    \* filtered_df at the end of the last run
    output,         \* what the OUTPUT section computed in the last run
    csv,            \* the text handed to st.download_button in the last run
    first,          \* the dataset, filters and view of the session's first
                    \* run that filtered
    event           \* the interaction that caused the last run

vars ==
    <<disk, uploaded_file, cache, widgets, options, shown, outcome, df,
      filtered_df, output, csv, first, event>>

(* The session's state becomes what a run of the script from it leaves.   *)
(* first is the snapshot of the first run that filtered since the data     *)
(* source (the uploaded file or its absence) last changed; its field       *)
(* others tells whether a later run had other filter values.               *)
Rerun(uploaded, ws) ==
    \E r \in {RunScript(disk, uploaded, cache, ws, options, filtered_df)} :
        /\ disk' = disk
        /\ uploaded_file' = uploaded
        /\ cache' = r.cache
        /\ widgets' = r.widgets
        /\ options' = r.options
        /\ shown' = r.shown
        /\ outcome' = r.outcome
        /\ df' = r.df
        /\ filtered_df' = r.filtered_df
        /\ output' = r.output
        /\ csv' = r.csv
        /\ first' = IF r.filtered_df = None
                    THEN IF uploaded = uploaded_file THEN first ELSE None
                    ELSE IF first = None \/ uploaded # uploaded_file
                    THEN Some([df |-> r.df[1], widgets |-> r.widgets,
                               filtered_df |-> r.filtered_df[1],
                               others |-> FALSE])
                    ELSE Some([first[1] EXCEPT
                                 !.others = @ \/ r.widgets # first[1].widgets])

NotRun(file, ws, opts) ==
    /\ disk = file
    /\ uploaded_file = None
    /\ cache = None
    /\ widgets = ws
    /\ options = opts
    /\ shown = 0
    /\ outcome = "init"
    /\ df = None
    /\ filtered_df = None
    /\ output = None
    /\ csv = None
    /\ first = None
    /\ event = "open"

\* the options the selectboxes of a file's DataFrame are rendered with
OptionsOf(file) ==
    IF file.kind = "csv"
    THEN RenderWidgets(ReadCsv(file.header, file.rows), DefaultWidgets,
                       NoOptions).options
    ELSE NoOptions

(***************************************************************************)
(* Actions.                                                                *)
(***************************************************************************)
\* the page is opened: the script runs
Start ==
    /\ outcome = "init"
    /\ Rerun(uploaded_file, widgets)
    /\ event' = "open"

\* the user picks an option of a rendered selectbox, or types a value into
\* a number input: the script reruns
Edit ==
    /\ outcome # "init"
    /\ \E name \in DOMAIN DefaultWidgets :
         /\ IF name \in Range(SelectboxNames)
            THEN (CHOOSE j \in 1..5 : SelectboxNames[j] = name) <= shown
            ELSE shown = 5
         /\ \E v \in WidgetValues(name, options) :
              /\ v # widgets[name]
              /\ ActiveCount([widgets EXCEPT ![name] = v]) <= MaxActive
              /\ Rerun(uploaded_file, [widgets EXCEPT ![name] = v])
    /\ event' = "edit"

(* Lines 125-127.  The button is pressed: the script reruns with the      *)
(* button True, renders every widget with the session's values, reaches   *)
(* st.rerun() and is run again from the top with the button False.        *)
PressReset ==
    /\ outcome # "init"
    /\ shown = 5
    /\ Rerun(uploaded_file, widgets)
    /\ event' = "reset"

\* lines 45-48: a file is uploaded, in a session that has no DataFrame
Upload ==
    /\ outcome # "init"
    /\ df = None
    /\ \E f \in Tables(MaxSessionRows) \cup BrokenFiles :
         /\ Some(f) # uploaded_file
         /\ Rerun(Some(f), widgets)
    /\ event' = "upload"

\* the uploaded file is removed
RemoveUpload ==
    /\ outcome # "init"
    /\ uploaded_file # None
    /\ Rerun(None, widgets)
    /\ event' = "remove"

(***************************************************************************)
(* Specifications.                                                         *)
(***************************************************************************)
\* a session: any default-path file, then any interactions
Init ==
    \E file \in Tables(MaxSessionRows) \cup BrokenFiles \cup {Absent} :
        NotRun(file, DefaultWidgets, NoOptions)

Next == Start \/ Edit \/ PressReset \/ Upload \/ RemoveUpload

Spec == Init /\ [][Next]_vars

\* one run of the script on any file with any filters set
RunInit ==
    \E file \in Tables(MaxRows) \cup BrokenFiles \cup {Absent} :
        \E ws \in WidgetStates(MaxActive, OptionsOf(file)) :
            NotRun(file, ws, OptionsOf(file))

RunSpec == RunInit /\ [][Start]_vars

\* one run of the script on any file with the default filters
AggInit ==
    \E file \in Tables(MaxViewRows) : NotRun(file, DefaultWidgets, NoOptions)

AggSpec == AggInit /\ [][Start]_vars

(***************************************************************************)
(* Properties.                                                             *)
(***************************************************************************)
\* the file the last run read its DataFrame from
SourceFile == IF uploaded_file # None THEN uploaded_file[1] ELSE disk

\* the predicates of a filter specification w on a row
Satisfies(row, w) ==
    /\ \A j \in 1..5 :
         \/ w[SelectboxNames[j]] = All
         \/ row[CategoricalColumns[j]] = w[SelectboxNames[j]]
    /\ 10 * w.math_min <= Tenths(row["math score"])
    /\ Tenths(row["math score"]) <= 10 * w.math_max
    /\ 10 * w.reading_min <= Tenths(row["reading score"])
    /\ Tenths(row["reading score"]) <= 10 * w.reading_max
    /\ 10 * w.writing_min <= Tenths(row["writing score"])
    /\ Tenths(row["writing score"]) <= 10 * w.writing_max
    /\ 10 * w.attendance_min <= Tenths(row["Attendance"])
    /\ Tenths(row["Attendance"]) <= 10 * w.attendance_max
    /\ w.study_hours_min <= Tenths(row["StudyHours"])
    /\ Tenths(row["StudyHours"]) <= w.study_hours_max
    /\ w.avg_score_min <= Tenths(row["avg_Score"])

(* C1: the filtered view is exactly the rows of the dataset that satisfy  *)
(* every predicate of the filter specification (categorical: 'All' or     *)
(* equal; numeric: min <= value <= max; avg_Score >= minimum), in the     *)
(* dataset's order: none that satisfies all is dropped, none that         *)
(* violates one is kept.  The index labels of the view are the positions  *)
(* of its rows in the dataset.                                            *)
FilteredViewIsExactSubsequence ==
    filtered_df # None =>
        LET d == df[1]
            v == filtered_df[1]
            keep == {i \in 1..Len(d.rows) : Satisfies(d.rows[i], widgets)}
        IN  /\ v.columns = d.columns
            /\ Len(v.rows) = Cardinality(keep)
            /\ Len(v.index) = Len(v.rows)
            /\ \A k \in 1..Len(v.rows) :
                 /\ v.index[k] + 1 \in keep
                 /\ v.rows[k] = d.rows[v.index[k] + 1]
            /\ \A k \in 1..(Len(v.rows) - 1) : v.index[k] < v.index[k + 1]

\* a run kept some rows and dropped others, one of the kept rows having
\* its Attendance equal to the maximum typed in
SomeRowsKeptAtBound ==
    /\ outcome = "results"
    /\ Len(filtered_df[1].rows) < Len(df[1].rows)
    /\ widgets.attendance_max # DefaultWidgets.attendance_max
    /\ \E k \in 1..Len(filtered_df[1].rows) :
         Tenths(filtered_df[1].rows[k]["Attendance"]) = 10 * widgets.attendance_max

\* the invariant of a Dataset: categorical columns hold strings, numeric
\* columns hold values of their domain
InDomain(d) ==
    \A i \in 1..Len(d.rows) :
        LET row == d.rows[i]
        IN  /\ \A j \in 1..5 : row[CategoricalColumns[j]].t = "str"
            /\ \A c \in {"math score", "reading score", "writing score"} :
                 row[c].t = "int" /\ row[c].n \in 0..100
            /\ row["Attendance"].t = "int" /\ row["Attendance"].n \in 0..10
            /\ row["StudyHours"].t # "str"
            /\ Tenths(row["StudyHours"]) \in 0..120
            /\ row["avg_Score"].t # "str"
            /\ Tenths(row["avg_Score"]) \in 0..1000

Unusable(file) ==
    \/ file.kind # "csv"
    \/ \E c \in Range(RequiredColumns) : c \notin Range(file.header)

(* C3: when the dataset file (default path or uploaded) is absent,        *)
(* malformed or lacks a required column, the run ends in the no-data      *)
(* state: no exception, no filtering, no summary, no export.              *)
LoadingNeverCrashes ==
    (outcome # "init" /\ Unusable(SourceFile)) =>
        /\ outcome = "nodata"
        /\ filtered_df = None
        /\ output = None
        /\ csv = None

\* every row of the view has the same value in column c
Constant(view, c) ==
    \A i, k \in 1..Len(view.rows) : view.rows[i][c] = view.rows[k][c]

\* the correlation of columns a and b of the view is undefined
CorrUndefined(view, a, b) ==
    Len(view.rows) < 2 \/ Constant(view, a) \/ Constant(view, b)

(* C4: on a non-empty view, each of the three correlations that is        *)
(* undefined (fewer than two rows, or one of its two series constant) is  *)
(* reported as the undefined sentinel (NaN), never as a number.           *)
UndefinedCorrelationIsSentinel ==
    output # None =>
        LET v == filtered_df[1]
        IN  /\ CorrUndefined(v, "StudyHours", "avg_Score")
                => output[1].corr_study_avg = "nan"
            /\ CorrUndefined(v, "Attendance", "avg_Score")
                => output[1].corr_attend_avg = "nan"
            /\ CorrUndefined(v, "math score", "reading score")
                => output[1].corr_math_read = "nan"

\* some numeric filter has its minimum above its maximum
Inverted(w) ==
    \/ w.attendance_min > w.attendance_max
    \/ w.study_hours_min > w.study_hours_max
    \/ w.math_min > w.math_max
    \/ w.reading_min > w.reading_max
    \/ w.writing_min > w.writing_max

(* C5: a filter specification with a minimum above its maximum gives a    *)
(* view of zero rows; and a run whose view is empty computes no summary   *)
(* and no export and ends in the empty-result message, a normal outcome.  *)
InvertedBoundsGiveEmptyResult ==
    filtered_df # None =>
        /\ Inverted(widgets) => Len(filtered_df[1].rows) = 0
        /\ Len(filtered_df[1].rows) = 0 =>
             outcome = "empty" /\ output = None /\ csv = None

\* a run with inverted bounds on a dataset that has rows
InvertedRunOnRows ==
    /\ outcome = "empty"
    /\ Inverted(widgets)
    /\ Len(df[1].rows) > 0

(* C6: the source dataset is never changed by filtering: after every run  *)
(* df is what was loaded from the file (row count, order, every cell),    *)
(* and the options of every rendered selectbox are those derived from it. *)
SourceDatasetUnchanged ==
    df # None =>
        /\ SourceFile.kind = "csv"
        /\ df[1] = ReadCsv(SourceFile.header, SourceFile.rows)
        /\ \A j \in 1..shown :
             options[SelectboxNames[j]] =
                SelectboxOptions(ReadCsv(SourceFile.header, SourceFile.rows),
                                 CategoricalColumns[j])

\* several filter specifications were submitted and the last one removed
\* rows from the view
RowsFilteredAfterSeveralRuns ==
    /\ first # None
    /\ first[1].others
    /\ filtered_df # None
    /\ Len(filtered_df[1].rows) < Len(df[1].rows)

RECURSIVE SumSizes(_)
SumSizes(groups) ==
    IF Len(groups) = 0 THEN 0
    ELSE SumSizes(SubSeq(groups, 1, Len(groups) - 1)) + groups[Len(groups)].size

\* groups partitions the rows of the view by their value in column c
Partitions(groups, view, c) ==
    LET values == Range(Column(view, c))
        members(key) == {i \in 1..Len(view.rows) : view.rows[i][c] = key}
    IN  /\ \A key \in values :
             Cardinality({k \in 1..Len(groups) : groups[k].key = key}) = 1
        /\ \A k \in 1..Len(groups) :
             /\ groups[k].key \in values
             /\ groups[k].size = Cardinality(members(groups[k].key))
             /\ groups[k].avg_Score[2] = groups[k].size
        /\ SumSizes(groups) = Len(view.rows)

(* C7: on a non-empty view, grouping by test preparation course, and by   *)
(* lunch, partitions the view: one entry per value that occurs, none for  *)
(* a value that does not, every row in exactly one group, and the group   *)
(* sizes sum to the number of rows.                                       *)
GroupingPartitionsView ==
    output # None =>
        /\ Partitions(output[1].prep_data, filtered_df[1],
                      "test preparation course")
        /\ Partitions(output[1].lunch_data, filtered_df[1], "lunch")
        /\ output[1].count = Len(filtered_df[1].rows)

\* a view with two test preparation groups, one of them of several rows
TwoGroupsOneOfSeveralRows ==
    /\ output # None
    /\ Len(output[1].prep_data) = 2
    /\ \E k \in 1..2 : output[1].prep_data[k].size >= 2

(* C8: the view depends only on the dataset and the current filter        *)
(* specification: whenever the filter values are those of the first run   *)
(* over the same dataset, the view is the view of that run, whatever was  *)
(* submitted in between.                                                   *)
ViewDependsOnlyOnCurrentSpec ==
    (first # None /\ filtered_df # None /\ df[1] = first[1].df
        /\ widgets = first[1].widgets)
        => filtered_df[1] = first[1].filtered_df

\* the first filter specification was submitted again after others, on a
\* dataset that has rows
SameSpecAgainAfterOthers ==
    /\ first # None
    /\ first[1].others
    /\ filtered_df # None
    /\ widgets = first[1].widgets
    /\ Len(first[1].filtered_df.rows) > 0

(* C9: parsing the CSV text produced for download gives the view back:    *)
(* the same column names in the same order and the same rows with the     *)
(* same values in the same order, and no index column.                    *)
ExportRoundTrips ==
    csv # None =>
        LET back == ReadCsv(csv[1].header, csv[1].rows)
        IN  /\ back.columns = filtered_df[1].columns
            /\ back.rows = filtered_df[1].rows

(* C10: after the Reset All Filters button is pressed and the script has  *)
(* rerun, every filter holds its default and the view of a dataset (one   *)
(* whose values are within their domain) is the full dataset.             *)
ResetRestoresDefaults ==
    event = "reset" =>
        /\ widgets = DefaultWidgets
        /\ (filtered_df # None /\ InDomain(df[1]))
              => filtered_df[1].rows = df[1].rows

====
